---- MODULE Spec2Model ----
(***************************************************************************)
(* go-gifv-pr: main.go as a state machine.                                 *)
(*                                                                         *)
(* A Go string is modelled as a sequence of one-character strings, so     *)
(* that strings.TrimSpace, strings.HasPrefix, strings.Replace, path.Ext   *)
(* and url.Parse are computed character by character as the library      *)
(* computes them.  The file system is the set of paths that exist in the  *)
(* working directory.  The log is a history variable that records, in     *)
(* order, every externally visible step of the run (network requests,     *)
(* processes started and exited, files created and removed, lines         *)
(* printed, stage returns).  os.Remove succeeds on a path that exists and *)
(* fails on one that does not; the outcomes of os.Create, of the two HTTP  *)
(* requests and of the two processes are chosen by the environment.        *)
(***************************************************************************)
EXTENDS Integers, Sequences, FiniteSets, TLC

VARIABLES
    keepFiles,       \* converter.keepFiles       (-k)
    outputMarkdown,  \* converter.outputMarkdown  (-m)
    clientID,        \* converter.clientID        (-c / IMGUR_CLIENT_ID)
    startImage,      \* converter.startImage      (-i, rewritten by fetchRemote)
    fileToConvert,   \* converter.fileToConvert
    outputImage,     \* converter.outputImage
    endImage,        \* converter.endImage
    argI,            \* the -i value as given on the command line (history)
    pc,              \* position of main
    temp,            \* fetchRemote's temp handle: "none", "nil" or "open"
    fs,              \* paths that exist in the working directory
    log              \* history of externally visible steps

vars == <<keepFiles, outputMarkdown, clientID, startImage, fileToConvert,
          outputImage, endImage, argI, pc, temp, fs, log>>

(***************************************************************************)
(* Bounds of the model.                                                    *)
(***************************************************************************)
\* number of pieces appended to "http://h" to build a remote reference
MaxPieces == 3

(***************************************************************************)
(* String literals of the program and of the inputs.                       *)
(***************************************************************************)
tempFileName == <<"t", "e", "m", "p", "_", "f", "i", "l", "e", "_", "t", "o", "_", "c", "o", "n", "v", "e", "r", "t">>
outputFileName == <<"o", "u", "t", "p", "u", "t">>
imgurAPIEndpoint == <<"h", "t", "t", "p", "s", ":", "/", "/", "a", "p", "i", ".", "i", "m", "g", "u", "r", ".", "c", "o", "m", "/", "3", "/", "i", "m", "a", "g", "e">>
GifExt == <<".", "g", "i", "f">>
GifvExt == <<".", "g", "i", "f", "v">>
Mp4Ext == <<".", "m", "p", "4">>
HttpPrefix == <<"h", "t", "t", "p">>
ImgurErrPrefix == <<"i", "m", "g", "u", "r", " ", "e", "r", "r", "o", "r", ":", " ">>
ErrNoInput == <<"Y", "o", "u", " ", "m", "u", "s", "t", " ", "p", "r", "o", "v", "i", "d", "e", " ", "a", "n", " ", "i", "n", "p", "u", "t", " ", "U", "R", "L", " ", "o", "r", " ", "p", "a", "t", "h">>
ErrNotExist == <<"I", "n", "p", "u", "t", " ", "f", "i", "l", "e", " ", "d", "o", "e", "s", " ", "n", "o", "t", " ", "e", "x", "i", "s", "t">>
NoticeNoID == <<"N", "o", " ", "i", "m", "g", "u", "r", " ", "C", "l", "i", "e", "n", "t", " ", "I", "D", " ", "p", "r", "o", "v", "i", "d", "e", "d", ".", " ", "F", "i", "l", "e", " ", "w", "i", "l", "l", " ", "b", "e", " ", "r", "e", "t", "a", "i", "n", "e", "d", " ", "l", "o", "c", "a", "l", "l", "y", ".">>
WarnRemove == <<"C", "o", "u", "l", "d", " ", "n", "o", "t", " ", "r", "e", "m", "o", "v", "e", " ", "f", "i", "l", "e", ":", " ", " ">>
MdOpen == <<"!", "[", "]", "(">>
MdClose == <<")">>

\* printable ASCII, 0x20 .. 0x7e (the grave accent, 0x60, is written "0x60")
Printable == <<" ", "!", "\"", "#", "$", "%", "&", "'", "(", ")", "*", "+", ",", "-", ".", "/", "0", "1", "2", "3", "4", "5", "6", "7", "8", "9", ":", ";", "<", "=", ">", "?", "@", "A", "B", "C", "D", "E", "F", "G", "H", "I", "J", "K", "L", "M", "N", "O", "P", "Q", "R", "S", "T", "U", "V", "W", "X", "Y", "Z", "[", "\\", "]", "^", "_", "0x60", "a", "b", "c", "d", "e", "f", "g", "h", "i", "j", "k", "l", "m", "n", "o", "p", "q", "r", "s", "t", "u", "v", "w", "x", "y", "z", "{", "|", "}", "~">>

Letters == {Printable[i] : i \in (34..59) \cup (66..91)}
Digits == {Printable[i] : i \in 17..26}
Whitespace == {" ", "\t", "\n", "\r"}

(***************************************************************************)
(* package strings                                                         *)
(***************************************************************************)
Min(S) == CHOOSE x \in S : \A y \in S : x <= y
Max(S) == CHOOSE x \in S : \A y \in S : x >= y

Tail0(s, i) == SubSeq(s, i, Len(s))   \* s[i-1:] in Go

HasPrefix(s, p) == Len(s) >= Len(p) /\ SubSeq(s, 1, Len(p)) = p

HasSuffix(s, p) == Len(s) >= Len(p) /\ SubSeq(s, Len(s) - Len(p) + 1, Len(s)) = p

\* strings.Index, 1-based; 0 when sub does not occur
Index(s, sub) ==
    LET hits == {i \in 1..(Len(s) - Len(sub) + 1) : SubSeq(s, i, i + Len(sub) - 1) = sub}
    IN  IF hits = {} THEN 0 ELSE Min(hits)

Contains(s, sub) == Index(s, sub) # 0

Count(s, c) == Cardinality({i \in 1..Len(s) : s[i] = c})

\* strings.Cut
Cut(s, sep) ==
    LET i == Index(s, sep)
    IN  IF i = 0
        THEN [before |-> s, after |-> <<>>, found |-> FALSE]
        ELSE [before |-> SubSeq(s, 1, i - 1), after |-> Tail0(s, i + Len(sep)), found |-> TRUE]

\* strings.Replace(s, old, new, -1): every non-overlapping occurrence, left to right
RECURSIVE Replace(_, _, _)
Replace(s, old, new) ==
    LET i == Index(s, old)
    IN  IF i = 0 \/ old = <<>>
        THEN s
        ELSE SubSeq(s, 1, i - 1) \o new \o Replace(Tail0(s, i + Len(old)), old, new)

\* strings.TrimSpace
TrimSpace(s) ==
    LET keep == {i \in 1..Len(s) : s[i] \notin Whitespace}
    IN  IF keep = {} THEN <<>> ELSE SubSeq(s, Min(keep), Max(keep))

(***************************************************************************)
(* package path                                                            *)
(***************************************************************************)
\* path.Ext: the suffix beginning at the final dot of the final element
Ext(p) ==
    LET dots == {i \in 1..Len(p) : p[i] = "." /\ \A j \in i..Len(p) : p[j] # "/"}
    IN  IF dots = {} THEN <<>> ELSE Tail0(p, Max(dots))

(***************************************************************************)
(* package net/url                                                         *)
(***************************************************************************)
HexDigits == Digits \cup {"a", "b", "c", "d", "e", "f", "A", "B", "C", "D", "E", "F"}

ishex(c) == c \in HexDigits

unhex(c) ==
    IF c \in Digits THEN (CHOOSE i \in 17..26 : Printable[i] = c) - 17
    ELSE IF c \in {"a", "A"} THEN 10
    ELSE IF c \in {"b", "B"} THEN 11
    ELSE IF c \in {"c", "C"} THEN 12
    ELSE IF c \in {"d", "D"} THEN 13
    ELSE IF c \in {"e", "E"} THEN 14
    ELSE 15

\* the character of a byte; bytes outside printable ASCII are kept as one opaque character
CharOf(n) == IF n \in 32..126 THEN Printable[n - 31] ELSE "\\x"

\* characters url.shouldEscape rejects in a host name, among printable ASCII
HostBad == {" ", "/", "?", "#", "@", "\\", "^", "0x60", "{", "|", "}"}

\* url.unescape, first pass: the escapes are well formed for the mode
EscapesOK(s, hostMode) ==
    /\ \A i \in 1..Len(s) : s[i] = "%" =>
          /\ i + 2 <= Len(s)
          /\ ishex(s[i + 1])
          /\ ishex(s[i + 2])
          /\ hostMode => (unhex(s[i + 1]) >= 8 \/ SubSeq(s, i, i + 2) = <<"%", "2", "5">>)
    /\ hostMode => \A i \in 1..Len(s) : s[i] \notin HostBad

\* url.unescape, second pass: decode %XX
RECURSIVE Unescape(_)
Unescape(s) ==
    IF s = <<>> THEN <<>>
    ELSE IF s[1] = "%"
         THEN <<CharOf(16 * unhex(s[2]) + unhex(s[3]))>> \o Unescape(Tail0(s, 4))
         ELSE <<s[1]>> \o Unescape(Tail0(s, 2))

\* url.getScheme
getScheme(raw) ==
    LET stop == {i \in 1..Len(raw) :
                    /\ raw[i] \notin Letters
                    /\ ~(raw[i] \in Digits \cup {"+", "-", "."} /\ i > 1)}
        i0   == Min(stop)
        none == [ok |-> TRUE, scheme |-> <<>>, rest |-> raw]
    IN  IF stop = {} THEN none
        ELSE IF raw[i0] = ":"
             THEN IF i0 = 1
                  THEN [ok |-> FALSE, scheme |-> <<>>, rest |-> <<>>]
                  ELSE [ok |-> TRUE, scheme |-> SubSeq(raw, 1, i0 - 1), rest |-> Tail0(raw, i0 + 1)]
             ELSE none

BadURL == [ok |-> FALSE, Scheme |-> <<>>, Opaque |-> <<>>, Host |-> <<>>, Path |-> <<>>, RawQuery |-> <<>>]

\* url.Parse.  Not modelled: control bytes, userinfo, ports and IPv6 literals
\* (no input of the model holds a control byte, "@", ":" after the scheme, or "[").
Parse(rawURL) ==
    LET u    == Cut(rawURL, <<"#">>).before
        frag == Cut(rawURL, <<"#">>).after
        sch  == getScheme(u)
        r0   == sch.rest
        force == HasSuffix(r0, <<"?">>) /\ Count(r0, "?") = 1
        rest == IF force THEN SubSeq(r0, 1, Len(r0) - 1) ELSE Cut(r0, <<"?">>).before
        query == IF force THEN <<>> ELSE Cut(r0, <<"?">>).after
        hasAuth == /\ (sch.scheme # <<>> \/ ~HasPrefix(rest, <<"/", "/", "/">>))
                   /\ HasPrefix(rest, <<"/", "/">>)
        auth0 == Tail0(rest, 3)
        slash == Index(auth0, <<"/">>)
        authority == IF slash = 0 THEN auth0 ELSE SubSeq(auth0, 1, slash - 1)
        p    == IF hasAuth THEN (IF slash = 0 THEN <<>> ELSE Tail0(auth0, slash)) ELSE rest
    IN  IF ~sch.ok THEN BadURL
        ELSE IF ~HasPrefix(rest, <<"/">>) /\ sch.scheme # <<>>
        THEN [ok |-> EscapesOK(frag, FALSE), Scheme |-> sch.scheme, Opaque |-> rest,
              Host |-> <<>>, Path |-> <<>>, RawQuery |-> query]
        ELSE IF ~HasPrefix(rest, <<"/">>) /\ Contains(Cut(rest, <<"/">>).before, <<":">>)
        THEN BadURL
        ELSE IF hasAuth /\ ~EscapesOK(authority, TRUE) THEN BadURL
        ELSE IF ~EscapesOK(p, FALSE) \/ ~EscapesOK(frag, FALSE) THEN BadURL
        ELSE [ok |-> TRUE, Scheme |-> sch.scheme, Opaque |-> <<>>,
              Host |-> IF hasAuth THEN Unescape(authority) ELSE <<>>,
              Path |-> Unescape(p), RawQuery |-> query]

(***************************************************************************)
(* Inputs of the model.                                                    *)
(***************************************************************************)
RemoteBase == <<"h", "t", "t", "p", ":", "/", "/", "h">>
LocalVideo == <<"a", ".", "m", "p", "4">>
OutputGif == outputFileName \o GifExt
SomeID == <<"i", "d">>
RateLimited == <<"r", "a", "t", "e", " ", "l", "i", "m", "i", "t", "e", "d">>
LinkXY == <<"h", "t", "t", "p", "s", ":", "/", "/", "x", "/", "y", ".", "g", "i", "f">>

\* the pieces a remote reference is built from
Pieces == {<<"/", "a">>, GifvExt, GifExt, <<"?">>, <<"%", "7", "6">>, <<"%">>}

RECURSIVE Suffixes(_)
Suffixes(n) ==
    IF n = 0 THEN {<<>>}
    ELSE LET S == Suffixes(n - 1) IN S \cup {s \o p : s \in S, p \in Pieces}

RemoteRefs == {RemoteBase \o s : s \in Suffixes(MaxPieces)}
LocalRefs == {LocalVideo, OutputGif}
BlankRefs == {<<>>, <<" ">>, <<" ", "\t">>}
ClientIDs == {<<>>, <<" ">>, SomeID}

\* decoded bodies of the hosting service's answer (imgurResponse)
Responses == {[Success |-> TRUE, Link |-> LinkXY, Err |-> <<>>],
              [Success |-> FALSE, Link |-> <<>>, Err |-> RateLimited],
              [Success |-> FALSE, Link |-> <<>>, Err |-> <<>>]}

\* texts of the errors the libraries return (their wording is not modelled)
ErrParse == <<"u", "r", "l", ":", " ", "p", "a", "r", "s", "e", " ", "e", "r", "r", "o", "r">>
ErrNet == <<"n", "e", "t", ":", " ", "r", "e", "q", "u", "e", "s", "t", " ", "f", "a", "i", "l", "e", "d">>
ErrInvalid == <<"i", "n", "v", "a", "l", "i", "d", " ", "a", "r", "g", "u", "m", "e", "n", "t">>
ErrCopy == <<"c", "o", "p", "y", " ", "f", "a", "i", "l", "e", "d">>
ErrExit == <<"e", "x", "i", "t", " ", "s", "t", "a", "t", "u", "s", " ", "1", ":", " ">>
ErrOpen == <<"o", "p", "e", "n", " ", "f", "a", "i", "l", "e", "d">>
ErrDecode == <<"j", "s", "o", "n", ":", " ", "d", "e", "c", "o", "d", "e", " ", "e", "r", "r", "o", "r">>

(***************************************************************************)
(* The log.                                                                *)
(***************************************************************************)
Ev(e, a) == [ev |-> e, arg |-> a]

Has(e) == \E i \in 1..Len(log) : log[i].ev = e

HasEv(e, a) == \E i \in 1..Len(log) : log[i] = Ev(e, a)

Before(i, e, a) == \E j \in 1..(i - 1) : log[j] = Ev(e, a)

NumOf(e) == Cardinality({i \in 1..Len(log) : log[i].ev = e})

(***************************************************************************)
(* main                                                                    *)
(***************************************************************************)
\* where main goes when it returns once "defer conv.cleanup()" has run:
\* the deferred call runs on every return
AfterReturnNoDefer(ok) == IF ok THEN "cleanup" ELSE "done"

AfterReturn(ok) == "cleanup"

\* "if err != nil { fmt.Println(err); return }" after a stage
StageFails(stage, msg, extra) ==
    /\ log' = log \o extra \o <<Ev(stage, <<"f", "a", "i", "l">>), Ev("print_err", msg)>>
    /\ pc' = AfterReturn(FALSE)

\* the text main prints for the final reference
Rendered(ref) == IF outputMarkdown THEN MdOpen \o ref \o MdClose ELSE ref

\* converter.validate: whether it returns an error
validateNoTrim(s) == s = <<>>

validate(s) == TrimSpace(s) = <<>>

Validate ==
    /\ pc = "start"
    /\ IF validate(startImage)
       THEN /\ log' = log \o <<Ev("validate", <<"f", "a", "i", "l">>), Ev("print_err", ErrNoInput)>>
            /\ pc' = "done"
       ELSE /\ log' = log \o <<Ev("validate", <<"o", "k">>)>>
            /\ pc' = "fetch"
    /\ UNCHANGED <<keepFiles, outputMarkdown, clientID, startImage, fileToConvert,
                   outputImage, endImage, argI, temp, fs>>

(***************************************************************************)
(* converter.fetchFile, converter.fetchRemote                              *)
(***************************************************************************)
\* fetchRemote's rewriting of the reference and of the extension
FetchedURL(ref, fileExt) ==
    IF fileExt = GifvExt THEN Replace(ref, GifvExt, Mp4Ext) ELSE ref

LocalExt(fileExt) == IF fileExt = GifvExt THEN Mp4Ext ELSE fileExt

\* fetchRemote up to client.Do(req): parse, rewrite, create the file, send the GET.
\* http.NewRequest parses c.startImage again and its error is dropped; the
\* rewriting never turns a reference url.Parse accepts into one it rejects.
FetchRemoteSend ==
    LET u == Parse(startImage)
        fileExt == Ext(u.Path)
        url == FetchedURL(startImage, fileExt)
        file == tempFileName \o LocalExt(fileExt)
    IN  IF ~u.ok
        THEN /\ StageFails("fetch", ErrParse, <<>>)
             /\ UNCHANGED <<startImage, fileToConvert, temp, fs>>
        ELSE \E created \in BOOLEAN :
             /\ startImage' = url
             /\ fileToConvert' = file
             /\ temp' = IF created THEN "open" ELSE "nil"
             /\ fs' = IF created THEN fs \cup {file} ELSE fs
             /\ log' = log \o (IF created THEN <<Ev("create", file)>> ELSE <<>>)
                           \o <<Ev("GET", url)>>
             /\ pc' = "download"

FetchLocal ==
    /\ fileToConvert' = startImage
    /\ IF startImage \notin fs
       THEN StageFails("fetch", ErrNotExist, <<>>)
       ELSE /\ log' = log \o <<Ev("fetch", <<"o", "k">>)>>
            /\ pc' = "convert"
    /\ UNCHANGED <<startImage, temp, fs>>

FetchFile ==
    /\ pc = "fetch"
    /\ IF HasPrefix(startImage, HttpPrefix) THEN FetchRemoteSend ELSE FetchLocal
    /\ UNCHANGED <<keepFiles, outputMarkdown, clientID, outputImage, endImage, argI>>

\* fetchRemote from the answer of client.Do on: io.Copy into temp, which fails
\* on a nil handle
DownloadDone ==
    /\ pc = "download"
    /\ \E r \in {"doErr", "copyErr", "ok"} :
          IF r = "doErr" THEN StageFails("fetch", ErrNet, <<>>)
          ELSE IF temp = "nil" THEN StageFails("fetch", ErrInvalid, <<>>)
          ELSE IF r = "copyErr" THEN StageFails("fetch", ErrCopy, <<>>)
          ELSE /\ log' = log \o <<Ev("fetch", <<"o", "k">>)>>
               /\ pc' = "convert"
    /\ temp' = "none"
    /\ UNCHANGED <<keepFiles, outputMarkdown, clientID, startImage, fileToConvert,
                   outputImage, endImage, argI, fs>>

(***************************************************************************)
(* converter.convert                                                       *)
(***************************************************************************)
\* the path convert assigns to c.outputImage before it runs ffmpeg
convertOutputUnset == <<>>

convertOutput == outputFileName \o GifExt

\* "err != nil" after exec.Cmd.Run
runFailedNever(status) == FALSE

runFailed(status) == status # 0

ConvertStart ==
    /\ pc = "convert"
    /\ outputImage' = convertOutput
    /\ log' = log \o <<Ev("ffmpeg_start", fileToConvert)>>
    /\ pc' = "ffmpeg"
    /\ UNCHANGED <<keepFiles, outputMarkdown, clientID, startImage, fileToConvert,
                   endImage, argI, temp, fs>>

FfmpegExit ==
    /\ pc = "ffmpeg"
    /\ \E status \in {0, 1} :
          IF runFailed(status)
          THEN /\ StageFails("convert", ErrExit, <<Ev("ffmpeg_exit", <<CharOf(48 + status)>>)>>)
               /\ \E partial \in BOOLEAN :   \* a failed ffmpeg may leave its output behind
                     fs' = IF partial THEN fs \cup {outputImage} ELSE fs
          ELSE /\ fs' = IF status = 0 THEN fs \cup {outputImage} ELSE fs
               /\ log' = log \o <<Ev("ffmpeg_exit", <<CharOf(48 + status)>>),
                                  Ev("gifsicle_start", outputImage)>>
               /\ pc' = "gifsicle"
    /\ UNCHANGED <<keepFiles, outputMarkdown, clientID, startImage, fileToConvert,
                   outputImage, endImage, argI, temp>>

GifsicleExit ==
    /\ pc = "gifsicle"
    /\ \E status \in {0, 1} :
          IF runFailed(status)
          THEN StageFails("convert", ErrExit, <<Ev("gifsicle_exit", <<CharOf(48 + status)>>)>>)
          ELSE /\ log' = log \o <<Ev("gifsicle_exit", <<CharOf(48 + status)>>),
                                  Ev("convert", <<"o", "k">>)>>
               /\ pc' = "upload"
    /\ UNCHANGED <<keepFiles, outputMarkdown, clientID, startImage, fileToConvert,
                   outputImage, endImage, argI, temp, fs>>

(***************************************************************************)
(* converter.upload                                                        *)
(***************************************************************************)
\* upload's test for "no Client ID"
noClientID(id) == TrimSpace(id) = <<>>

\* whether upload returns an error for a decoded answer
responseRejected(resp) == ~resp.Success

\* upload returned nil: main prints the final reference and returns
UploadSucceeds(ref, extra) ==
    /\ endImage' = ref
    /\ log' = log \o extra \o <<Ev("upload", <<"o", "k">>), Ev("print_result", Rendered(ref))>>
    /\ pc' = AfterReturn(TRUE)

\* upload up to client.Do(req)
Upload ==
    /\ pc = "upload"
    /\ IF noClientID(clientID)
       THEN UploadSucceeds(outputImage, <<Ev("upload_start", <<>>), Ev("print_notice", NoticeNoID)>>)
       ELSE IF outputImage \notin fs
       THEN /\ StageFails("upload", ErrOpen, <<Ev("upload_start", <<>>)>>)
            /\ UNCHANGED endImage
       ELSE /\ log' = log \o <<Ev("upload_start", <<>>), Ev("POST", imgurAPIEndpoint)>>
            /\ pc' = "uploading"
            /\ UNCHANGED endImage
    /\ UNCHANGED <<keepFiles, outputMarkdown, clientID, startImage, fileToConvert,
                   outputImage, argI, temp, fs>>

\* upload from the answer of client.Do on
UploadResponse ==
    /\ pc = "uploading"
    /\ \/ /\ StageFails("upload", ErrNet, <<>>)
          /\ UNCHANGED endImage
       \/ /\ StageFails("upload", ErrDecode, <<>>)
          /\ UNCHANGED endImage
       \/ \E resp \in Responses :
             LET answer == IF resp.Success THEN <<>>
                           ELSE <<Ev("response_failure", resp.Err)>>
             IN  IF responseRejected(resp)
                 THEN /\ StageFails("upload", ImgurErrPrefix \o resp.Err, answer)
                      /\ UNCHANGED endImage
                 ELSE UploadSucceeds(resp.Link, answer)
    /\ UNCHANGED <<keepFiles, outputMarkdown, clientID, startImage, fileToConvert,
                   outputImage, argI, temp, fs>>

(***************************************************************************)
(* converter.cleanup                                                       *)
(***************************************************************************)
\* the list cleanup gathers when files are not kept
filesToRemoveAlwaysOutput(start, input, output, id) ==
    (IF start # input THEN <<input>> ELSE <<>>) \o <<output>>

filesToRemoveOutputOnly(start, input, output, id) ==
    IF TrimSpace(id) # <<>> THEN <<output>> ELSE <<>>

filesToRemove(start, input, output, id) ==
    (IF start # input THEN <<input>> ELSE <<>>)
    \o (IF TrimSpace(id) # <<>> THEN <<output>> ELSE <<>>)

\* the loop over filesToRemove: os.Remove fails on a path that does not exist
RECURSIVE RemoveAll(_, _, _)
RemoveAll(files, f, l) ==
    IF files = <<>> THEN [fs |-> f, log |-> l]
    ELSE LET p == Head(files)
         IN  IF p \in f
             THEN RemoveAll(Tail(files), f \ {p}, l \o <<Ev("remove", p)>>)
             ELSE RemoveAll(Tail(files), f,
                            l \o <<Ev("remove", p), Ev("print_warn", WarnRemove \o fileToConvert)>>)

Cleanup ==
    /\ pc = "cleanup"
    /\ LET r == IF keepFiles
                THEN [fs |-> fs, log |-> log \o <<Ev("cleanup", <<>>)>>]
                ELSE RemoveAll(filesToRemove(startImage, fileToConvert, outputImage, clientID),
                               fs, log \o <<Ev("cleanup", <<>>)>>)
       IN  /\ fs' = r.fs
           /\ log' = r.log
    /\ pc' = "done"
    /\ UNCHANGED <<keepFiles, outputMarkdown, clientID, startImage, fileToConvert,
                   outputImage, endImage, argI, temp>>

(***************************************************************************)
(* The specification.                                                      *)
(***************************************************************************)
Init ==
    /\ argI \in RemoteRefs \cup LocalRefs \cup BlankRefs
    /\ startImage = argI
    /\ keepFiles \in BOOLEAN
    /\ outputMarkdown \in BOOLEAN
    /\ clientID \in ClientIDs
    /\ fileToConvert = <<>>
    /\ outputImage = <<>>
    /\ endImage = <<>>
    /\ pc = "start"
    /\ temp = "none"
    /\ fs \in IF argI \in LocalRefs THEN {{}, {argI}}
             ELSE IF argI \in BlankRefs THEN {{}, {LocalVideo}} ELSE {{}}
    /\ log = <<>>

Next ==
    \/ Validate
    \/ FetchFile
    \/ DownloadDone
    \/ ConvertStart
    \/ FfmpegExit
    \/ GifsicleExit
    \/ Upload
    \/ UploadResponse
    \/ Cleanup

Spec == Init /\ [][Next]_vars

(***************************************************************************)
(* Properties.                                                             *)
(***************************************************************************)
Remote == HasPrefix(argI, HttpPrefix)

Events(e) == {i \in 1..Len(log) : log[i].ev = e}

Removed == {log[i].arg : i \in Events("remove")}

\* C1: with no Client ID configured (empty or whitespace-only) and fetch, ffmpeg
\* and gifsicle all successful, a finished run has sent no upload request, has
\* printed the local output path as its final reference, and has left that file
\* in place, whatever -k says and whether the input was local or remote.
C1_LocalResultKept ==
    (pc = "done" /\ TrimSpace(clientID) = <<>> /\ HasEv("convert", <<"o", "k">>)) =>
        /\ ~Has("POST")
        /\ endImage = outputImage
        /\ outputImage = OutputGif
        /\ HasEv("print_result", Rendered(OutputGif))
        /\ OutputGif \in fs
        /\ OutputGif \notin Removed

C1_Witness ==
    /\ pc = "done"
    /\ clientID = <<" ">>
    /\ ~keepFiles
    /\ Remote
    /\ HasEv("convert", <<"o", "k">>)
    /\ HasEv("print_result", Rendered(OutputGif))
    /\ tempFileName \o GifExt \in Removed

\* C2: every stage error aborts the rest of the pipeline: ffmpeg is started only
\* after input resolution succeeded, gifsicle only after ffmpeg exited 0, upload
\* is entered (and any upload request sent) only after ffmpeg and gifsicle both
\* exited 0, the final reference is printed only after upload returned without
\* error; once a stage has failed nothing but cleanup follows.
C2_ErrorsAbort ==
    /\ \A i \in Events("ffmpeg_start") : Before(i, "fetch", <<"o", "k">>)
    /\ \A i \in Events("gifsicle_start") : Before(i, "ffmpeg_exit", <<"0">>)
    /\ \A i \in Events("upload_start") \cup Events("POST") :
          Before(i, "ffmpeg_exit", <<"0">>) /\ Before(i, "gifsicle_exit", <<"0">>)
    /\ \A i \in Events("print_result") : Before(i, "upload", <<"o", "k">>)
    /\ HasEv("ffmpeg_exit", <<"1">>) => ~Has("gifsicle_start") /\ ~Has("upload_start") /\ ~Has("POST")
    /\ \A i \in 1..Len(log) : log[i].arg = <<"f", "a", "i", "l">> =>
          \A j \in (i + 1)..Len(log) : log[j].ev \in {"print_err", "cleanup", "remove", "print_warn"}

C2_Witness ==
    /\ pc = "done"
    /\ HasEv("ffmpeg_exit", <<"1">>)
    /\ clientID = SomeID
    /\ HasEv("convert", <<"f", "a", "i", "l">>)

\* C3 (as claimed): when files are not kept and the run sent no upload request,
\* cleanup does not try to remove the output path.
C3_OutputRemovedOnlyAfterUpload ==
    (pc = "done" /\ ~keepFiles /\ ~Has("POST")) => OutputGif \notin Removed

\* C4 (as claimed): for a local source reference, cleanup never tries to remove
\* the path the user supplied.
C4_LocalSourceNeverRemoved ==
    ~Remote => argI \notin Removed

\* C5: with a Client ID configured, files not kept and a remote input, an answer
\* decoded with success=false and error string E makes the run print an error
\* "imgur error: E", print no final reference, and remove both the output file
\* and the downloaded temporary file.
C5_RejectedUpload ==
    \A i \in Events("response_failure") :
        (pc = "done" /\ ~keepFiles /\ Remote) =>
            /\ TrimSpace(clientID) # <<>>
            /\ \E j \in (i + 1)..Len(log) :
                  /\ log[j].ev = "print_err"
                  /\ HasPrefix(log[j].arg, ImgurErrPrefix)
                  /\ Contains(log[j].arg, log[i].arg)
            /\ ~Has("print_result")
            /\ endImage = <<>>
            /\ HasPrefix(fileToConvert, tempFileName)
            /\ {OutputGif, fileToConvert} \subseteq Removed
            /\ OutputGif \notin fs
            /\ fileToConvert \notin fs

C5_Witness ==
    /\ pc = "done"
    /\ ~keepFiles
    /\ Remote
    /\ HasEv("response_failure", RateLimited)
    /\ HasEv("print_err", ImgurErrPrefix \o RateLimited)

\* C6: cleanup runs exactly once in every run that passed validation, whichever
\* stage failed or none, and it is the last thing the run does: it never runs
\* while a stage is still to run, and nothing but its own removals and warnings
\* follows it.
C6_CleanupOnceAtEnd ==
    /\ NumOf("cleanup") <= 1
    /\ Has("cleanup") => pc = "done"
    /\ (pc = "done" /\ HasEv("validate", <<"o", "k">>)) => NumOf("cleanup") = 1
    /\ \A i \in Events("cleanup") :
          \A j \in (i + 1)..Len(log) : log[j].ev \in {"remove", "print_warn"}

C6_Witness ==
    /\ pc = "done"
    /\ HasEv("gifsicle_exit", <<"1">>)
    /\ NumOf("cleanup") = 1
    /\ log[Len(log)].ev # "cleanup"

\* C7: for an empty or whitespace-only input reference the run prints the
\* validation error and does nothing else: no request, no process, no file
\* created or removed, no cleanup.
C7_BlankInputRejected ==
    TrimSpace(argI) = <<>> =>
        /\ pc \in {"start", "done"}
        /\ pc = "done" => log = <<Ev("validate", <<"f", "a", "i", "l">>), Ev("print_err", ErrNoInput)>>
        /\ fileToConvert = <<>>
        /\ \A i \in 1..Len(log) : log[i].ev \in {"validate", "print_err"}

C7_Witness ==
    /\ pc = "done"
    /\ argI = <<" ", "\t">>
    /\ clientID = SomeID
    /\ log = <<Ev("validate", <<"f", "a", "i", "l">>), Ev("print_err", ErrNoInput)>>

\* C8 (as claimed): for a remote reference whose URL path has the extension
\* .gifv, the URL fetched differs from the reference only in that extension,
\* rewritten to .mp4 (same scheme, host and query, same path up to the
\* extension), and the local file is temp_file_to_convert.mp4; for any other
\* remote reference the URL fetched is the reference itself and the local file
\* is temp_file_to_convert plus the extension of the URL path.
C8_OnlyExtensionRewritten ==
    \A i \in Events("GET") :
        LET u == Parse(argI)
            f == Parse(log[i].arg)
        IN  IF Ext(u.Path) = GifvExt
            THEN /\ f.ok
                 /\ f.Scheme = u.Scheme
                 /\ f.Host = u.Host
                 /\ f.RawQuery = u.RawQuery
                 /\ f.Path = SubSeq(u.Path, 1, Len(u.Path) - Len(GifvExt)) \o Mp4Ext
                 /\ fileToConvert = tempFileName \o Mp4Ext
            ELSE /\ log[i].arg = argI
                 /\ fileToConvert = tempFileName \o Ext(u.Path)

\* C9 (as claimed): while ffmpeg has not exited with status 0, outputImage is
\* empty.
C9_OutputSetOnlyAfterSuccess ==
    ~HasEv("ffmpeg_exit", <<"0">>) => outputImage = <<>>

\* C9 (amended): outputImage is empty until convert starts ffmpeg and is
\* output.gif from then on, whether ffmpeg is running, failed or succeeded.
C9_OutputSetWhenFfmpegStarts ==
    /\ ~Has("ffmpeg_start") => outputImage = <<>>
    /\ Has("ffmpeg_start") => outputImage = OutputGif

C9_Witness ==
    /\ pc = "ffmpeg"
    /\ outputImage = OutputGif
    /\ ~Has("ffmpeg_exit")

\* C10 (as claimed): cleanup never calls os.Remove on an empty path.
C10_NoEmptyPathRemoved ==
    <<>> \notin Removed

====
